---- MODULE Spec2Model ----
(***************************************************************************)
(* NdLife: the 2D Grid Engine (LifeSpace) and the Terminal Viewer          *)
(* (LifeViewer) of utilities/life_2d.py.                                    *)
(*                                                                         *)
(* A board is a function from 0-based cell indices <<i, j>> to 0 / 1 (the  *)
(* numpy array of 0.0 / 1.0 values); a tuple of indices is a sequence.     *)
(***************************************************************************)
EXTENDS Integers, Sequences, FiniteSets, TLC

VARIABLES
    space,      \* LifeSpace.space: the current board
    dims,       \* LifeSpace.dims: <<extent0, extent1>>
    wrap,       \* LifeSpace.wrap
    track,      \* LifeSpace.track
    ind_list,   \* LifeSpace.ind_list: the sequence of all cell indices
    hist,       \* LifeSpace.hist: sequence of boards
    nsteps,     \* number of step() calls made on the engine so far
    op,         \* name of the last engine operation called
    arg,        \* its argument (an index), or <<>>
    ret,        \* its return value
    pc,         \* position of LifeViewer.show()
    g,          \* LifeViewer.g
    gen,        \* number of completed iterations of the loop of _draw
    term,       \* <<rows, cols>> of the terminal window
    held,       \* TRUE while the curses session holds the terminal
    exc,        \* exception in flight inside show(), or "none"
    caught,     \* exception the handler of show() caught, or "none"
    outcome,    \* what the caller of show() observes: "none" until it ends
    printed,    \* sequence of notices printed
    screen,     \* text last drawn on the screen, or <<>>
    intr,       \* where the last KeyboardInterrupt reached _draw, or "none"
    nd,         \* the program LifeND(...).stable_search(t_max)
    vl          \* a VectorLife object and its run(g) call

engine == <<space, dims, wrap, track, ind_list, hist, nsteps>>
call   == <<op, arg, ret>>
viewer == <<pc, g, gen, term, held, exc, caught, outcome, printed, screen,
            intr>>
others == <<nd, vl>>
vars   == <<space, dims, wrap, track, ind_list, hist, nsteps, op, arg, ret,
            pc, g, gen, term, held, exc, caught, outcome, printed, screen,
            intr, nd, vl>>

(***************************************************************************)
(* Bounds                                                                  *)
(***************************************************************************)
MaxCells == 8      \* every board of at most MaxCells cells is enumerated
MaxSteps == 3      \* step() calls per behaviour
MaxG     == 2      \* generation counts g given to the viewer: 0..MaxG
MaxT     == 2      \* step budgets t_max given to stable_search: 0..MaxT

(***************************************************************************)
(* Boards                                                                  *)
(***************************************************************************)
Cells(d) == (0 .. d[1] - 1) \X (0 .. d[2] - 1)

Boards(d) == [Cells(d) -> {0, 1}]

BoardOf(d, live) == [c \in Cells(d) |-> IF c \in live THEN 1 ELSE 0]

\* the 4x4 board with the 2x2 block in the centre
Block4 == BoardOf(<<4, 4>>, {<<1, 1>>, <<1, 2>>, <<2, 1>>, <<2, 2>>})

\* the 5x5 board with the horizontal / vertical three-cell row
BlinkerH == BoardOf(<<5, 5>>, {<<2, 1>>, <<2, 2>>, <<2, 3>>})
BlinkerV == BoardOf(<<5, 5>>, {<<1, 2>>, <<2, 2>>, <<3, 2>>})

Dead(d) == BoardOf(d, {})

\* the shapes of at most MaxCells cells, and 3x3, the smallest shape with a
\* cell that has all 8 neighbours inside the board
SmallDims ==
    {d \in (1 .. MaxCells) \X (1 .. MaxCells) : d[1] * d[2] <= MaxCells}
        \cup {<<3, 3>>}

\* the boards an engine is constructed with
SeedBoards ==
    UNION {Boards(d) : d \in SmallDims}
        \cup {Block4, BlinkerH, Dead(<<4, 4>>), Dead(<<5, 5>>)}

\* np.shape(space)
shape(b) ==
    LET cs == DOMAIN b
    IN  <<Cardinality({c[1] : c \in cs}), Cardinality({c[2] : c \in cs})>>

\* a[index] for a numpy array a: a negative coordinate counts from the end
np_axis(n, d) == IF n < 0 THEN n + d ELSE n

np_cell(index, d) == <<np_axis(index[1], d[1]), np_axis(index[2], d[2])>>

np_get(a, d, index) == a[np_cell(index, d)]

(***************************************************************************)
(* LifeSpace: pure methods, as functions of the fields they read           *)
(***************************************************************************)
\* Python's any(index): some coordinate is truthy (non-zero)
any(index) == \E k \in 1 .. Len(index) : index[k] # 0

\* a Python bool used as a number
bool_int(b) == IF b THEN 1 ELSE 0

\* zip(index, dims): positions both sequences have
zip_range(index, d) == 1 .. (IF Len(index) < Len(d) THEN Len(index) ELSE Len(d))

check_valid_index(index, d) ==
    IF bool_int(any(index)) < 0
    THEN FALSE
    ELSE \A k \in zip_range(index, d) : ~(index[k] > d[k] - 1)

\* wrap_switch without the low-end branch
wrap_switch_nolow(n, d) ==
    IF n > d - 1 THEN 0 ELSE n

wrap_switch(n, d) ==
    IF n < 0 THEN d - 1
    ELSE IF n > d - 1 THEN 0
    ELSE n

wrap_index(index, d) ==
    [k \in zip_range(index, d) |-> wrap_switch(index[k], d[k])]

\* list.remove(x): drop the first element equal to x
RECURSIVE remove(_, _)
remove(s, x) ==
    IF s = <<>> THEN <<>>
    ELSE IF Head(s) = x THEN Tail(s)
    ELSE <<Head(s)>> \o remove(Tail(s), x)

\* [f(s[1]), ..., f(s[n])] for the wrapped indices
wrap_all(s, d) == [k \in 1 .. Len(s) |-> wrap_index(s[k], d)]

\* the 9 candidates (a, b) for a in ranges[0] for b in ranges[1]
neighbor_ind(index) ==
    [k \in 1 .. 9 |-> <<index[1] + ((k - 1) \div 3) - 1,
                        index[2] + ((k - 1) % 3) - 1>>]

\* get_neighbors without the removal of the own cell
get_neighbors_keepself(index, d, w) ==
    LET cand == neighbor_ind(index)
    IN  IF w
        THEN wrap_all(cand, d)
        ELSE SelectSeq(cand, LAMBDA i : check_valid_index(i, d))

get_neighbors(index, d, w) ==
    LET cand == remove(neighbor_ind(index), index)
    IN  IF w
        THEN wrap_all(cand, d)
        ELSE SelectSeq(cand, LAMBDA i : check_valid_index(i, d))

RECURSIVE sum(_)
sum(s) == IF s = <<>> THEN 0 ELSE Head(s) + sum(Tail(s))

count_live_neighbors(neighbors, sp, d) ==
    sum([k \in 1 .. Len(neighbors) |-> np_get(sp, d, neighbors[k])])

\* check_live with the "or n_count == 3" of the live branch left out
check_live_only2(live, n_count) ==
    IF live THEN n_count = 2 ELSE n_count = 3

\* check_live with the dead branch giving birth on "not 3"
check_live_birth(live, n_count) ==
    IF live THEN (n_count = 2 \/ n_count = 3) ELSE n_count # 3

check_live(live, n_count) ==
    IF live
    THEN IF n_count = 2 \/ n_count = 3 THEN TRUE ELSE FALSE
    ELSE IF n_count = 3 THEN TRUE ELSE FALSE

get_next_cell(index, sp, d, w) ==
    LET neighbors == get_neighbors(index, d, w)
        live_neighbors == count_live_neighbors(neighbors, sp, d)
    IN  check_live(np_get(sp, d, index) # 0, live_neighbors)

\* np.empty(shape=dims): no cell holds a board value yet; -1 stands for
\* whatever was in memory
empty(d) == [c \in Cells(d) |-> -1]

\* the loop of get_next_space over ind_list[k..], writing into new_space
RECURSIVE fill(_, _, _, _, _, _)
fill(new_space, k, il, sp, d, w) ==
    IF k > Len(il) THEN new_space
    ELSE fill([new_space EXCEPT ![np_cell(il[k], d)] =
                   bool_int(get_next_cell(il[k], sp, d, w))],
              k + 1, il, sp, d, w)

\* get_next_space writing into the current board instead of a fresh one:
\* each cell is computed from the partly updated board
RECURSIVE fill_alias(_, _, _, _, _)
fill_alias(cur, k, il, d, w) ==
    IF k > Len(il) THEN cur
    ELSE fill_alias([cur EXCEPT ![np_cell(il[k], d)] =
                         bool_int(get_next_cell(il[k], cur, d, w))],
                    k + 1, il, d, w)

get_next_space_alias(sp, d, w, il) == fill_alias(sp, 1, il, d, w)

get_next_space(sp, d, w, il) == fill(empty(d), 1, il, sp, d, w)

\* the index list of __init__
make_ind_list(d) ==
    [k \in 1 .. d[1] * d[2] |-> <<(k - 1) \div d[2], (k - 1) % d[2]>>]

(***************************************************************************)
(* LifeSpace: construction and operations                                  *)
(***************************************************************************)
\* LifeSpace(space=b, wrap=w, track=t)
LifeSpace_init(b, w, t) ==
    /\ space = b
    /\ dims = shape(b)
    /\ wrap = w
    /\ track = t
    /\ ind_list = make_ind_list(shape(b))
    /\ hist = <<b>>
    /\ nsteps = 0
    /\ op = "__init__"
    /\ arg = <<>>
    /\ ret = <<>>

\* step() without the append to hist
step_noappend ==
    /\ space' = get_next_space(space, dims, wrap, ind_list)
    /\ hist' = hist
    /\ nsteps' = nsteps + 1
    /\ op' = "step"
    /\ arg' = <<>>
    /\ ret' = space'
    /\ UNCHANGED <<dims, wrap, track, ind_list>>

\* step() appending to hist whatever track says
step_alwaysappend ==
    /\ space' = get_next_space(space, dims, wrap, ind_list)
    /\ hist' = Append(hist, space')
    /\ nsteps' = nsteps + 1
    /\ op' = "step"
    /\ arg' = <<>>
    /\ ret' = space'
    /\ UNCHANGED <<dims, wrap, track, ind_list>>

\* LifeSpace.step()
step ==
    /\ space' = get_next_space(space, dims, wrap, ind_list)
    /\ hist' = IF track THEN Append(hist, space') ELSE hist
    /\ nsteps' = nsteps + 1
    /\ op' = "step"
    /\ arg' = <<>>
    /\ ret' = space'
    /\ UNCHANGED <<dims, wrap, track, ind_list>>

\* the viewer before show() is called
ViewerIdle ==
    /\ pc = "idle"
    /\ g = 0
    /\ gen = 0
    /\ term = <<0, 0>>
    /\ held = FALSE
    /\ exc = "none"
    /\ caught = "none"
    /\ outcome = "none"
    /\ printed = <<>>
    /\ screen = <<>>
    /\ intr = "none"

\* no LifeND program and no VectorLife object
NoOthers ==
    /\ nd = [pc |-> "none"]
    /\ vl = [pc |-> "none"]

Init ==
    /\ \E b \in SeedBoards, w \in BOOLEAN, t \in BOOLEAN : LifeSpace_init(b, w, t)
    /\ ViewerIdle
    /\ NoOthers

\* a caller takes one step
Step ==
    /\ nsteps < MaxSteps
    /\ step
    /\ UNCHANGED viewer
    /\ UNCHANGED others

Next == Step

Spec == Init /\ [][Next]_vars

(***************************************************************************)
(* Index queries on a constructed engine                                   *)
(***************************************************************************)
\* the boards the queried engines are constructed with
QueryBoards ==
    UNION {{Dead(d), BoardOf(d, Cells(d))} : d \in SmallDims}
        \cup {Block4, BlinkerH}

QueryInit ==
    /\ \E b \in QueryBoards, w \in BOOLEAN, t \in BOOLEAN : LifeSpace_init(b, w, t)
    /\ ViewerIdle
    /\ NoOthers

\* the coordinates the candidates of get_neighbors range over
Candidates(d) == (-1 .. d[1]) \X (-1 .. d[2])

CheckValidIndex ==
    /\ \E index \in Candidates(dims) :
          /\ op' = "check_valid_index"
          /\ arg' = index
          /\ ret' = check_valid_index(index, dims)
    /\ UNCHANGED engine
    /\ UNCHANGED viewer
    /\ UNCHANGED others

GetNeighbors ==
    /\ \E k \in 1 .. Len(ind_list) :
          /\ op' = "get_neighbors"
          /\ arg' = ind_list[k]
          /\ ret' = get_neighbors(ind_list[k], dims, wrap)
    /\ UNCHANGED engine
    /\ UNCHANGED viewer
    /\ UNCHANGED others

QueryNext == CheckValidIndex \/ GetNeighbors

QuerySpec == QueryInit /\ [][QueryNext]_vars

(***************************************************************************)
(* Properties of the Grid Engine                                           *)
(***************************************************************************)
Last(s) == s[Len(s)]

\* C1: with track = TRUE, after N step() calls hist holds exactly N + 1
\* boards, the initial board followed by one per step in order, and its
\* last entry is the current board.
C1_HistoryTracksSteps ==
    track =>
        /\ Len(hist) = nsteps + 1
        /\ Last(hist) = space
        /\ \A k \in 2 .. Len(hist) :
              hist[k] = get_next_space(hist[k - 1], dims, wrap, ind_list)

C1_Witness ==
    /\ track
    /\ nsteps >= 2
    /\ Len(hist) = nsteps + 1
    /\ hist[1] # hist[2]
    /\ hist[2] # hist[3]

\* the live-neighbour count of cell c on board sp: the sum of the board's
\* values over get_neighbors(c)
n_of(c, sp) == count_live_neighbors(get_neighbors(c, dims, wrap), sp, dims)

\* the classic rule: survive on 2 or 3, birth on exactly 3
Rule(c, sp) ==
    \/ sp[c] = 1 /\ n_of(c, sp) \in {2, 3}
    \/ sp[c] = 0 /\ n_of(c, sp) = 3

\* C2: a step() makes each cell alive iff the previous board had it alive
\* with 2 or 3 live neighbours or dead with exactly 3; every other cell is
\* dead.
C2_StepAppliesRule ==
    [][op' = "step" /\ nsteps' = nsteps + 1 =>
          \A c \in Cells(dims) :
              /\ space'[c] \in {0, 1}
              /\ (space'[c] = 1) <=> Rule(c, space)]_vars

C2_Witness ==
    /\ op = "step"
    /\ track
    /\ Len(hist) >= 2
    /\ LET prev == hist[Len(hist) - 1]
       IN  /\ \E c \in Cells(dims) : prev[c] = 1 /\ space[c] = 0
           /\ \E c \in Cells(dims) : prev[c] = 1 /\ space[c] = 1
           /\ \E c \in Cells(dims) : prev[c] = 0 /\ space[c] = 1
           /\ \E c \in Cells(dims) : prev[c] = 0 /\ space[c] = 0

\* a coordinate pair inside the board
InRange(index, d) ==
    \A k \in 1 .. 2 : index[k] >= 0 /\ index[k] <= d[k] - 1

\* the 8 Moore offsets in the order of the candidate list
Offsets ==
    <<<<-1, -1>>, <<-1, 0>>, <<-1, 1>>, <<0, -1>>,
      <<0, 1>>, <<1, -1>>, <<1, 0>>, <<1, 1>>>>

Moore(index) ==
    [k \in 1 .. 8 |-> <<index[1] + Offsets[k][1], index[2] + Offsets[k][2]>>]

\* C3: with wrap disabled get_neighbors returns exactly the Moore
\* candidates whose every coordinate lies in [0, extent-1].
C3_BoundedNeighborsInRange ==
    (op = "get_neighbors" /\ ~wrap) =>
        ret = SelectSeq(Moore(arg), LAMBDA i : InRange(i, dims))

\* C4: check_valid_index(index) is true iff every coordinate of index lies
\* in [0, extent-1] of its axis.
C4_ValidIffInRange ==
    op = "check_valid_index" => (ret <=> InRange(arg, dims))

\* C5: with wrap enabled get_neighbors returns exactly 8 indices, the k-th
\* being the k-th Moore candidate taken modulo the extents; each is a valid
\* index, and for a cell on an edge they include cells of the opposite edge.
C5_WrappedNeighborsModulo ==
    (op = "get_neighbors" /\ wrap) =>
        /\ Len(ret) = 8
        /\ \A k \in 1 .. 8 :
              /\ ret[k] = <<(arg[1] + Offsets[k][1]) % dims[1],
                            (arg[2] + Offsets[k][2]) % dims[2]>>
              /\ InRange(ret[k], dims)
        /\ arg[1] = 0 => \E k \in 1 .. 8 : ret[k][1] = dims[1] - 1
        /\ arg[1] = dims[1] - 1 => \E k \in 1 .. 8 : ret[k][1] = 0
        /\ arg[2] = 0 => \E k \in 1 .. 8 : ret[k][2] = dims[2] - 1
        /\ arg[2] = dims[2] - 1 => \E k \in 1 .. 8 : ret[k][2] = 0

C5_Witness ==
    /\ op = "get_neighbors"
    /\ wrap
    /\ dims = <<3, 3>>
    /\ arg = <<0, 2>>
    /\ ret[1] = <<2, 1>>
    /\ ret[3] = <<2, 0>>

\* C6: from a fully dead board, of any size and with either wrap policy,
\* the board is fully dead after every number of steps.
C6_DeadStaysDead ==
    hist[1] = Dead(dims) => space = Dead(dims)

C6_Witness ==
    /\ hist[1] = Dead(dims)
    /\ nsteps >= 2
    /\ dims = <<1, 2>>
    /\ wrap
    /\ space = Dead(dims)

\* C7: with wrap disabled the 4x4 board with the 2x2 block in the centre is
\* unchanged after every number of steps.
C7_BlockIsFixedPoint ==
    (hist[1] = Block4 /\ ~wrap) => space = Block4

C7_Witness ==
    /\ hist[1] = Block4
    /\ ~wrap
    /\ nsteps >= 2
    /\ op = "step"
    /\ space = Block4

\* C8: with wrap disabled the 5x5 horizontal three-cell row is the vertical
\* column after every odd number of steps and the initial board after
\* every even number.
C8_BlinkerPeriodTwo ==
    (hist[1] = BlinkerH /\ ~wrap) =>
        /\ nsteps % 2 = 1 => space = BlinkerV
        /\ nsteps % 2 = 0 => space = BlinkerH
        /\ BlinkerV # BlinkerH

C8_Witness ==
    /\ hist[1] = BlinkerH
    /\ ~wrap
    /\ nsteps = 3
    /\ space = BlinkerV

(***************************************************************************)
(* LifeViewer                                                              *)
(***************************************************************************)
\* terminal window sizes <<rows, cols>>
TermSizes == {<<3, 3>>, <<7, 7>>}

\* get_view(grid): "0" for a live cell, " " for a dead one, "\n" after
\* each row
get_view(grid, d) ==
    [p \in 1 .. d[1] * (d[2] + 1) |->
        LET i == (p - 1) \div (d[2] + 1)
            j == (p - 1) % (d[2] + 1)
        IN  IF j = d[2] THEN "\n"
            ELSE IF grid[<<i, j>>] # 0 THEN "0"
            ELSE " "]

\* screen.addstr(0, 0, text) succeeds: the window has a row for every line
\* of text and one below the last newline, and a column for every
\* character of a line
addstr_ok(text, t) ==
    LET newlines == {p \in 1 .. Len(text) : text[p] = "\n"}
        starts == {p \in 1 .. Len(text) : p = 1 \/ text[p - 1] = "\n"}
        width(p) ==
            (CHOOSE q \in newlines \cup {Len(text) + 1} :
                 /\ q >= p
                 /\ \A r \in newlines : r >= p => q <= r) - p
    IN  /\ Cardinality(newlines) < t[1]
        /\ \A p \in starts : width(p) <= t[2]

\* the boards of the engines bound to a viewer
ViewerBoards == QueryBoards \cup Boards(<<2, 2>>)

\* LifeViewer(life_space=..., g=n).show() has been called
ViewerInit ==
    /\ \E b \in ViewerBoards, w \in BOOLEAN, t \in BOOLEAN : LifeSpace_init(b, w, t)
    /\ pc = "show"
    /\ g \in 0 .. MaxG
    /\ gen = 0
    /\ term \in TermSizes
    /\ held = FALSE
    /\ exc = "none"
    /\ caught = "none"
    /\ outcome = "none"
    /\ printed = <<>>
    /\ screen = <<>>
    /\ intr = "none"
    /\ NoOthers

\* stdscr = curses.initscr()
Initscr ==
    /\ pc = "show"
    /\ UNCHANGED <<intr, nd, vl>>
    /\ held' = TRUE
    /\ pc' = "draw"
    /\ UNCHANGED <<engine, call, g, gen, term, exc, caught, outcome, printed,
                   screen>>

\* _draw up to the loop: curs_set, clear and the initial addstr
DrawInitial ==
    /\ pc = "draw"
    /\ UNCHANGED <<intr, nd, vl>>
    /\ LET text == get_view(space, dims)
       IN  IF addstr_ok(text, term)
           THEN /\ screen' = text
                /\ pc' = "loop"
                /\ exc' = exc
           ELSE /\ screen' = screen
                /\ pc' = "handler"
                /\ exc' = "ValueError"
    /\ UNCHANGED <<engine, call, g, gen, term, held, caught, outcome, printed>>

\* one iteration of the loop of _draw: step, addstr, refresh, sleep
DrawIter ==
    /\ pc = "loop"
    /\ UNCHANGED <<intr, nd, vl>>
    /\ gen < g
    /\ step
    /\ LET text == get_view(space', dims)
       IN  IF addstr_ok(text, term)
           THEN /\ screen' = text
                /\ gen' = gen + 1
                /\ pc' = "loop"
                /\ exc' = exc
           ELSE /\ screen' = screen
                /\ gen' = gen
                /\ pc' = "handler"
                /\ exc' = "curses.error"
    /\ UNCHANGED <<g, term, held, caught, outcome, printed>>

\* the handler of the loop body without its break: the loop goes on
DrawInterrupt_nobreak ==
    /\ pc = "loop"
    /\ intr' = "iteration"
    /\ UNCHANGED others
    /\ gen < g
    /\ \E at \in {"step", "addstr", "sleep"} :
          /\ IF at = "step"
             THEN UNCHANGED <<engine, call>>
             ELSE step
          /\ IF at = "sleep"
             THEN /\ addstr_ok(get_view(space', dims), term)
                  /\ screen' = get_view(space', dims)
             ELSE screen' = screen
    /\ printed' = Append(printed, "Terminated.")
    /\ pc' = "loop"
    /\ UNCHANGED <<g, gen, term, held, exc, caught, outcome>>

\* a KeyboardInterrupt inside the try of the loop body: while step() has
\* not yet returned, before addstr, or after it (refresh, sleep)
DrawInterrupt ==
    /\ pc = "loop"
    /\ intr' = "iteration"
    /\ UNCHANGED others
    /\ gen < g
    /\ \E at \in {"step", "addstr", "sleep"} :
          /\ IF at = "step"
             THEN UNCHANGED <<engine, call>>
             ELSE step
          /\ IF at = "sleep"
             THEN /\ addstr_ok(get_view(space', dims), term)
                  /\ screen' = get_view(space', dims)
             ELSE screen' = screen
    /\ printed' = Append(printed, "Terminated.")
    /\ pc' = "wrapper"
    /\ UNCHANGED <<g, gen, term, held, exc, caught, outcome>>

\* range(g) is exhausted: _draw returns None
DrawReturn ==
    /\ pc = "loop"
    /\ UNCHANGED <<intr, nd, vl>>
    /\ gen = g
    /\ pc' = "wrapper"
    /\ UNCHANGED <<engine, call, g, gen, term, held, exc, caught, outcome,
                   printed, screen>>

\* the user resizes the terminal window while the loop runs
Resize ==
    /\ pc = "loop"
    /\ UNCHANGED <<intr, nd, vl>>
    /\ term' \in TermSizes \ {term}
    /\ UNCHANGED <<engine, call, pc, g, gen, held, exc, caught, outcome,
                   printed, screen>>

\* a KeyboardInterrupt outside the try of the loop body: in the setup and
\* initial draw, at the for statement, or inside curses.wrapper
InterruptOutside ==
    /\ pc \in {"draw", "loop", "wrapper"}
    /\ intr' = "outside"
    /\ UNCHANGED others
    /\ exc' = "KeyboardInterrupt"
    /\ pc' = "handler"
    /\ UNCHANGED <<engine, call, g, gen, term, held, caught, outcome, printed,
                   screen>>

\* curses.wrapper(None): sets the session up, calls None, which raises
\* TypeError, and ends the session in its finally clause
Wrapper ==
    /\ pc = "wrapper"
    /\ UNCHANGED <<intr, nd, vl>>
    /\ held' = FALSE
    /\ exc' = "TypeError"
    /\ pc' = "handler"
    /\ UNCHANGED <<engine, call, g, gen, term, caught, outcome, printed,
                   screen>>

\* the except / else clauses of show() with no endwin() in the except clause
ShowEnd_norelease ==
    /\ pc = "handler"
    /\ UNCHANGED <<intr, nd, vl>>
    /\ held' = (IF exc # "none" THEN held ELSE FALSE)
    /\ caught' = exc
    /\ exc' = "none"
    /\ outcome' = "returned"
    /\ pc' = "done"
    /\ UNCHANGED <<engine, call, g, gen, term, printed, screen>>

\* the except / else clauses of show(): both call endwin(), and show()
\* returns None
ShowEnd ==
    /\ pc = "handler"
    /\ UNCHANGED <<intr, nd, vl>>
    /\ held' = FALSE
    /\ caught' = exc
    /\ exc' = "none"
    /\ outcome' = "returned"
    /\ pc' = "done"
    /\ UNCHANGED <<engine, call, g, gen, term, printed, screen>>

ViewerNext ==
    \/ Initscr
    \/ DrawInitial
    \/ DrawIter
    \/ DrawInterrupt
    \/ DrawReturn
    \/ Resize
    \/ InterruptOutside
    \/ Wrapper
    \/ ShowEnd

ViewerSpec == ViewerInit /\ [][ViewerNext]_vars

C10_SizingFailureReachesCaller ==
    (pc = "done" /\ caught = "ValueError") =>
        /\ outcome = "ValueError"
        /\ nsteps = 0

(***************************************************************************)
(* VectorLife (vectorized_life.py)                                         *)
(***************************************************************************)
\* VectorLife(board=b, wrap=w, track=t); tape = <<>> stands for None
VectorLife_init(b, w, t) ==
    vl = [pc |-> "idle", board |-> b, dims |-> shape(b), wrap |-> w,
          track |-> t, tape |-> IF t THEN <<b>> ELSE <<>>,
          g |-> 0, i |-> 0, steps |-> 0, printed |-> <<>>,
          intr |-> "none", raised |-> "none"]

\* VectorLife.step(): the body is pass; steps counts the calls
vl_step(v) == [v EXCEPT !.steps = @ + 1]

\* run(g) is called
VLRunCall ==
    /\ vl.pc = "idle"
    /\ \E n \in 0 .. MaxG : vl' = [vl EXCEPT !.pc = "run", !.g = n, !.i = 0]
    /\ UNCHANGED <<engine, call, viewer, nd>>

\* one iteration of run: step(), then the append when tracking
VLRunIter ==
    /\ vl.pc = "run"
    /\ vl.i < vl.g
    /\ LET v == vl_step(vl)
       IN  vl' = [v EXCEPT !.tape = IF v.track THEN Append(@, v.board) ELSE @,
                           !.i = @ + 1]
    /\ UNCHANGED <<engine, call, viewer, nd>>

\* a KeyboardInterrupt inside the try of run: before step() is called, or
\* after it returned and before the append
VLRunInterrupt ==
    /\ vl.pc = "run"
    /\ vl.i < vl.g
    /\ \E at \in {"step", "append"} :
          LET v == IF at = "step" THEN vl ELSE vl_step(vl)
          IN  vl' = [v EXCEPT !.printed = Append(@, "Terminating."),
                              !.intr = "iteration",
                              !.pc = "returned"]
    /\ UNCHANGED <<engine, call, viewer, nd>>

\* range(g) is exhausted: run returns
VLRunReturn ==
    /\ vl.pc = "run"
    /\ vl.i = vl.g
    /\ vl' = [vl EXCEPT !.pc = "returned"]
    /\ UNCHANGED <<engine, call, viewer, nd>>

\* a KeyboardInterrupt at the for statement of run, outside the try
VLInterruptOutside ==
    /\ vl.pc = "run"
    /\ vl' = [vl EXCEPT !.pc = "raised", !.raised = "KeyboardInterrupt",
                        !.intr = "outside"]
    /\ UNCHANGED <<engine, call, viewer, nd>>

VLRunNext ==
    \/ VLRunCall
    \/ VLRunIter
    \/ VLRunInterrupt
    \/ VLRunReturn
    \/ VLInterruptOutside

(***************************************************************************)
(* The long-running loops side by side: a viewer showing an engine and a   *)
(* VectorLife running on the same initial board                            *)
(***************************************************************************)
LoopBoards == {Dead(<<1, 1>>), BoardOf(<<2, 2>>, Cells(<<2, 2>>)), BlinkerH}

LoopInit ==
    /\ \E b \in LoopBoards, w \in BOOLEAN, t \in BOOLEAN :
          /\ LifeSpace_init(b, w, t)
          /\ VectorLife_init(b, w, t)
    /\ pc = "show"
    /\ g \in 0 .. MaxG
    /\ gen = 0
    /\ term \in TermSizes
    /\ held = FALSE
    /\ exc = "none"
    /\ caught = "none"
    /\ outcome = "none"
    /\ printed = <<>>
    /\ screen = <<>>
    /\ intr = "none"
    /\ nd = [pc |-> "none"]

LoopNext == ViewerNext \/ VLRunNext

LoopSpec == LoopInit /\ [][LoopNext]_vars

py_int(n) == [t |-> "int", v |-> n]
py_tuple(s) == [t |-> "tuple", v |-> s]

\* math.pow(x, y): a float for two numbers, TypeError for anything else
math_pow(x, y) ==
    IF x.t \in {"int", "float"} /\ y.t \in {"int", "float"}
    THEN [t |-> "float", v |-> x.v ^ y.v]
    ELSE [t |-> "TypeError", v |-> 0]

\* the rule attributes before make_rules has assigned any
NoRules ==
    [raised |-> "none", set |-> {}, low_rule |-> 0, high_rule |-> 0,
     res_low |-> 0, res_high |-> 0]

\* the loop of make_rules from index i on, for n = self.dims and
\* ps[i] = i / num; a flag x_found is "x is in st.set"
RECURSIVE rules_scan(_, _, _, _)
rules_scan(i, n, num, st) ==
    IF i >= n THEN st
    ELSE
        LET s1 == IF "low_rule" \notin st.set /\ 4 * i >= num
                  THEN [st EXCEPT !.low_rule = i, !.set = @ \cup {"low_rule"}]
                  ELSE st
            s2 == IF "high_rule" \in s1.set THEN s1
                  ELSE IF 8 * i = 3 * num
                  THEN [s1 EXCEPT !.high_rule = i, !.res_low = i,
                                  !.set = @ \cup {"high_rule", "res_low"}]
                  ELSE IF 8 * i > 3 * num
                  THEN [s1 EXCEPT !.high_rule = i - 1, !.res_low = i - 1,
                                  !.set = @ \cup {"high_rule", "res_low"}]
                  ELSE s1
            s3 == IF "res_high" \notin s2.set /\ 2 * i >= num
                  THEN [s2 EXCEPT !.res_high = i - 1,
                                  !.set = @ \cup {"res_high"}]
                  ELSE s2
        IN  IF {"low_rule", "high_rule", "res_high"} \subseteq s3.set
            THEN s3
            ELSE rules_scan(i + 1, n, num, s3)

\* make_rules() on an object whose dims attribute is self_dims
make_rules(self_dims) ==
    LET p == math_pow(py_int(3), self_dims)
        num_neighbors == [p EXCEPT !.v = @ - 1]
    IN  IF p.t = "TypeError"
        THEN [NoRules EXCEPT !.raised = "TypeError"]
        \* range(num_neighbors) and range(self.dims) take an int only
        ELSE IF num_neighbors.t # "int" \/ self_dims.t # "int"
        THEN [NoRules EXCEPT !.raised = "TypeError"]
        ELSE rules_scan(0, self_dims.v, num_neighbors.v, NoRules)

\* LifeND.check_live(live, n_count) on object o
nd_check_live(o, live, n_count) ==
    LET lo == IF live THEN "low_rule" ELSE "res_low"
        hi == IF live THEN "high_rule" ELSE "res_high"
    IN  IF lo \notin o.attrs
        THEN [raised |-> "AttributeError", value |-> FALSE]
        ELSE IF ~(n_count >= o[lo])
        THEN [raised |-> "none", value |-> FALSE]
        ELSE IF hi \notin o.attrs
        THEN [raised |-> "AttributeError", value |-> FALSE]
        ELSE [raised |-> "none", value |-> n_count <= o[hi]]

\* LifeND.get_next_space() on object o
nd_get_next_space(o) ==
    LET cell(c) ==
            nd_check_live(o, np_get(o.space, o.dims, c) # 0,
                          count_live_neighbors(
                              get_neighbors(c, o.dims, o.wrap),
                              o.space, o.dims))
    IN  IF \E k \in 1 .. Len(o.ind_list) : cell(o.ind_list[k]).raised # "none"
        THEN [raised |-> "AttributeError", value |-> o.space]
        ELSE [raised |-> "none",
              value |-> [c \in Cells(o.dims) |-> bool_int(cell(c).value)]]

\* bool(a) of a numpy array a is an error unless a has exactly one element
size(b) == Cardinality(DOMAIN b)

\* check_for_empty(): any(self.space) takes the truth value of each row
check_for_empty(o) ==
    IF o.dims[2] > 1
    THEN [raised |-> "ValueError", value |-> FALSE]
    ELSE [raised |-> "none",
          value |-> ~(\E c \in Cells(o.dims) : o.space[c] # 0)]

\* check_for_similarity(new_space): any(self.tape) takes the truth value
\* of each board, and the if that of (bool == new_space)
check_for_similarity(o, new_space) ==
    IF "tape" \notin o.attrs
    THEN [raised |-> "AttributeError", value |-> FALSE]
    ELSE IF size(new_space) > 1
    THEN [raised |-> "ValueError", value |-> FALSE]
    ELSE LET some == \E k \in 1 .. Len(o.tape) : o.tape[k][<<0, 0>>] # 0
         IN  [raised |-> "none",
              value |-> bool_int(some) = new_space[<<0, 0>>]]

\* self.tape.index(new_space) for one-cell boards: 0-based position of the
\* first equal board, or -1 for ValueError
tape_index(o, new_space) ==
    LET hits == {k \in 1 .. Len(o.tape) : o.tape[k] = new_space}
    IN  IF hits = {} THEN -1
        ELSE (CHOOSE k \in hits : \A h \in hits : k <= h) - 1

\* LifeND.step() on object o: the object after the call, with the outcome
\* in raised, found, board and period (period 0 stands for None)
nd_step(o) ==
    LET o1 == [o EXCEPT !.steps = @ + 1]
        new_space == nd_get_next_space(o1)
        empty_ == check_for_empty(o1)
        similar == check_for_similarity(o1, new_space.value)
        a == tape_index(o1, new_space.value)
    IN  IF new_space.raised # "none"
        THEN [o1 EXCEPT !.raised = new_space.raised]
        ELSE IF empty_.raised # "none"
        THEN [o1 EXCEPT !.raised = empty_.raised]
        ELSE IF empty_.value
        THEN [o1 EXCEPT !.found = TRUE, !.board = o1.space, !.period = 0]
        ELSE IF similar.raised # "none"
        THEN [o1 EXCEPT !.raised = similar.raised]
        ELSE IF similar.value
        THEN IF a < 0
             THEN [o1 EXCEPT !.raised = "ValueError"]
             ELSE [o1 EXCEPT !.found = TRUE, !.board = new_space.value,
                             !.period = Len(o1.tape) - a]
        ELSE [o1 EXCEPT !.space = new_space.value,
                        !.tape = IF o1.track THEN Append(@, new_space.value)
                                 ELSE @,
                        !.found = FALSE, !.board = new_space.value,
                        !.period = 0]

\* the loop of stable_search(t_max) from counter i on
RECURSIVE search_loop(_, _, _)
search_loop(o, i, t_max) ==
    IF ~(i < t_max) THEN [o EXCEPT !.pc = "returned"]
    ELSE LET o1 == nd_step(o)
         IN  IF o1.raised # "none" THEN [o1 EXCEPT !.pc = "raised"]
             ELSE IF o1.found THEN [o1 EXCEPT !.pc = "returned"]
             ELSE search_loop(o1, i + 1, t_max)

stable_search(o, t_max) == search_loop(o, 0, t_max)

\* the statements of __init__ after make_rules(): wrap, ind_list, track, tape
init_rest(o) ==
    [o EXCEPT !.wrap = o.arg_wrap,
              !.ind_list = make_ind_list(o.dims),
              !.track = o.arg_track,
              !.tape = IF o.arg_track THEN <<o.space>> ELSE <<>>,
              !.attrs = @ \cup {"wrap", "ind_list", "track"}
                          \cup (IF o.arg_track THEN {"tape"} ELSE {})]

\* the seeds of the searches
NDBoards ==
    UNION {{Dead(d), BoardOf(d, Cells(d))} : d \in SmallDims}
        \cup Boards(<<2, 2>>) \cup {Block4, BlinkerH}

\* the class attribute LifeND.dims, read by an object that has none
LifeND_dims == 2

\* a LifeND program before its first statement
NDStart(prog, b, w, t, n) ==
    [prog |-> prog, pc |-> IF prog = "search" THEN "__init__" ELSE "make_rules",
     arg_space |-> b, arg_wrap |-> w, arg_track |-> t, t_max |-> n,
     attrs |-> {}, space |-> <<>>, dims |-> <<>>, wrap |-> FALSE,
     track |-> FALSE, ind_list |-> <<>>, tape |-> <<>>,
     low_rule |-> 0, high_rule |-> 0, res_low |-> 0, res_high |-> 0,
     raised |-> "none", steps |-> 0, found |-> FALSE, board |-> <<>>,
     period |-> 0]

\* the program is LifeND(space=b, wrap=w, track=t).stable_search(n), or
\* make_rules() on an object made without __init__
NDInit ==
    /\ \/ \E b \in NDBoards, w \in BOOLEAN, t \in BOOLEAN, n \in 0 .. MaxT :
             nd = NDStart("search", b, w, t, n)
       \/ nd = NDStart("make_rules", <<>>, FALSE, FALSE, 0)
    /\ LifeSpace_init(Dead(<<1, 1>>), FALSE, FALSE)
    /\ ViewerIdle
    /\ vl = [pc |-> "none"]

\* __init__: self.space = space; self.dims = np.shape(space)
NDAssignSpace ==
    /\ nd.pc = "__init__"
    /\ nd' = [nd EXCEPT !.space = nd.arg_space,
                        !.dims = shape(nd.arg_space),
                        !.attrs = {"space", "dims"},
                        !.pc = "make_rules"]
    /\ UNCHANGED <<engine, call, viewer, vl>>

\* self.make_rules().  An exception leaves the program; otherwise the
\* rest of __init__ and the search run
NDMakeRules ==
    /\ nd.pc = "make_rules"
    /\ LET r == make_rules(IF "dims" \in nd.attrs THEN py_tuple(nd.dims)
                           ELSE py_int(LifeND_dims))
           o == [nd EXCEPT !.low_rule = r.low_rule,
                           !.high_rule = r.high_rule,
                           !.res_low = r.res_low,
                           !.res_high = r.res_high,
                           !.attrs = @ \cup r.set]
       IN  IF r.raised # "none"
           THEN nd' = [nd EXCEPT !.raised = r.raised, !.pc = "raised"]
           ELSE IF nd.prog = "make_rules"
           THEN nd' = [o EXCEPT !.pc = "returned"]
           ELSE nd' = stable_search(init_rest(o), nd.t_max)
    /\ UNCHANGED <<engine, call, viewer, vl>>

NDNext == NDAssignSpace \/ NDMakeRules

NDSpec == NDInit /\ [][NDNext]_vars

\* the search program has ended
NDEnded == nd.pc \in {"raised", "returned"}

\* the four thresholds of the rule set
RuleNames == {"low_rule", "high_rule", "res_low", "res_high"}

\* C13: for dimensionality 2, once make_rules has run, the four thresholds
\* are defined, low_rule <= high_rule, res_low <= res_high, and each lies
\* in 0..7.
C13_RulesDefinedOrdered ==
    NDEnded =>
        /\ RuleNames \subseteq nd.attrs
        /\ nd.low_rule <= nd.high_rule
        /\ nd.res_low <= nd.res_high
        /\ \A x \in RuleNames : nd[x] \in 0 .. 7

\* C14: for dimensionality 2, make_rules derives low_rule = 2,
\* high_rule = 3, res_low = 3, res_high = 3, and LifeND.check_live agrees
\* with LifeSpace.check_live for every live flag and every count 0..8.
C14_RulesClassical ==
    NDEnded =>
        /\ <<nd.low_rule, nd.high_rule, nd.res_low, nd.res_high>>
               = <<2, 3, 3, 3>>
        /\ \A live \in BOOLEAN, n \in 0 .. 8 :
              nd_check_live(nd, live, n)
                  = [raised |-> "none", value |-> check_live(live, n)]

\* C12: a tracked search with a large enough budget reports found with the
\* true period: 2 for the 5x5 blinker, 1 for the 2x2 block.
C12_SearchReportsPeriod ==
    (NDEnded /\ nd.prog = "search" /\ nd.arg_track /\ nd.t_max >= 2) =>
        /\ nd.arg_space = BlinkerH => nd.found /\ nd.period = 2
        /\ nd.arg_space = Block4 => nd.found /\ nd.period = 1

C19_SearchTerminates ==
    (NDEnded /\ nd.prog = "search") =>
        /\ nd.pc = "returned"
        /\ nd.steps <= nd.t_max
        /\ ~nd.found =>
              /\ nd.steps = nd.t_max
              /\ nd.arg_track => Len(nd.tape) = nd.t_max + 1

(***************************************************************************)
(* The two 2D engines stepped side by side                                 *)
(***************************************************************************)
\* LifeSpace(space=b, wrap=w, track=t) and VectorLife(board=b, wrap=w,
\* track=t) are constructed from the same board
PairInit ==
    /\ \E b \in ViewerBoards, w \in BOOLEAN, t \in BOOLEAN :
          /\ LifeSpace_init(b, w, t)
          /\ VectorLife_init(b, w, t)
    /\ ViewerIdle
    /\ nd = [pc |-> "none"]

\* a caller calls step() on both engines
PairStep ==
    /\ nsteps < MaxSteps
    /\ step
    /\ vl' = vl_step(vl)
    /\ UNCHANGED <<viewer, nd>>

PairNext == PairStep

PairSpec == PairInit /\ [][PairNext]_vars

\* C15: after the same number of step() calls on both engines,
\* VectorLife.board equals the board of the LifeSpace.
C15_EnginesStayEqual == vl.steps = nsteps => vl.board = space

\* C16: no index returned by get_neighbors(c) addresses the board cell c
\* itself, for any board size and either wrap policy.
C16_OwnCellNotCounted ==
    op = "get_neighbors" =>
        \A k \in 1 .. Len(ret) : np_cell(ret[k], dims) # arg

(***************************************************************************)
(* get_next_space() under other enumerations of the cells                  *)
(***************************************************************************)
reverse(s) == [k \in 1 .. Len(s) |-> s[Len(s) + 1 - k]]

\* the cells of a board of shape d, column by column
col_major(d) ==
    [k \in 1 .. d[1] * d[2] |-> <<(k - 1) % d[1], (k - 1) \div d[1]>>]

\* enumerations of the cells that ind_list could hold
Orders(d) ==
    {make_ind_list(d), reverse(make_ind_list(d)),
     col_major(d), reverse(col_major(d))}

OrderBoards == Boards(<<2, 2>>) \cup Boards(<<1, 3>>) \cup {Block4, BlinkerH}

OrderInit ==
    /\ \E b \in OrderBoards, w \in BOOLEAN, t \in BOOLEAN :
          LifeSpace_init(b, w, t)
    /\ ViewerIdle
    /\ NoOthers

\* a caller calls get_next_space() itself; il is the enumeration the loop
\* follows
GetNextSpace ==
    /\ \E il \in Orders(dims) :
          /\ op' = "get_next_space"
          /\ arg' = il
          /\ ret' = get_next_space(space, dims, wrap, il)
    /\ UNCHANGED engine
    /\ UNCHANGED viewer
    /\ UNCHANGED others

OrderNext == Step \/ GetNextSpace

OrderSpec == OrderInit /\ [][OrderNext]_vars

\* C17: get_next_space() leaves the board and the history as they are and
\* returns a full board that is the same for every enumeration of the
\* cells, and so is the board step() installs.
C17_NextSpaceOrderFree ==
    [][/\ op' = "get_next_space" =>
            /\ space' = space
            /\ hist' = hist
            /\ ret' \in [Cells(dims) -> {0, 1}]
            /\ ret' = get_next_space(space, dims, wrap, ind_list)
       /\ (op' = "step" /\ nsteps' = nsteps + 1) =>
            \A il \in Orders(dims) :
                space' = get_next_space(space, dims, wrap, il)]_vars

\* get_next_space() ran in another order than ind_list's on a board that
\* the generation changes
C17_Witness ==
    /\ op = "get_next_space"
    /\ arg # ind_list
    /\ ret # space
    /\ \E c \in Cells(dims) : ret[c] = 1
    /\ nsteps >= 1

\* C20: with track=False, hist is the one-element list of the initial board
\* after every number of steps; step() changes none of dims, wrap, track
\* and ind_list under either tracking setting.
C20_UntrackedHistFixed ==
    /\ []((~track /\ nsteps = 0) => hist = <<space>>)
    /\ [](~track => Len(hist) = 1)
    /\ [][(op' = "step" /\ nsteps' = nsteps + 1) =>
            /\ UNCHANGED <<dims, wrap, track, ind_list>>
            /\ ~track => hist' = hist]_vars

\* an untracked engine has stepped twice and its board is no longer the
\* initial one
C20_Witness ==
    /\ ~track
    /\ op = "step"
    /\ nsteps >= 2
    /\ hist # <<space>>
    /\ Len(hist) = 1

====
